---- MODULE Spec2Model ----
(***************************************************************************)
(* Model of the gocrawler_mvp crawl core: urlmanager.Manager (the          *)
(* Frontier), fetcher.RunWorker, parser.RunWorker, storage.RunStorageWorker*)
(* and the wiring in cmd/main.go, as given in the implementation guide.    *)
(*                                                                         *)
(* main.go passes urlMgr.GetNextURL and urlMgr.SignalShutdown where the    *)
(* workers expect channels; the model wires them to Manager.urlChan and    *)
(* Manager.shutdownChan, the channels those methods read and close.        *)
(***************************************************************************)
EXTENDS Integers, Sequences, FiniteSets, TLC

\* ------------------------------------------------------------------ bounds
\* largest number of fetch workers and of parse workers a run starts (-workers)
NumWorkers == 2
\* capacity of urlChan (urlChannelBuffer scaled down)
QueueCap == 1

\* ------------------------------------------------------- program constants
DefaultMaxRetries == 2

\* the worker slots of each pool; a run starts cfg.GetNumWorkers() of them
Fetchers == 1..NumWorkers
Parsers == 1..NumWorkers

\* --------------------------------------------------------------- URL model
\* A URL is a record of the parts net/url keeps apart.
MkURL(s, h, p, f) == [scheme |-> s, host |-> h, path |-> p, frag |-> f]

None == [scheme |-> "-", host |-> "-", path |-> "-", frag |-> "-"]
NormErr == [scheme |-> "!", host |-> "!", path |-> "!", frag |-> "!"]

Root == MkURL("http", "a.test", "/", "")
PageX == MkURL("http", "a.test", "/x", "")
PageXFrag == MkURL("http", "a.test", "/x", "sec")
RootUpper == MkURL("http", "A.TEST", "/", "")
NoScheme == MkURL("", "", "/x", "")

\* the pages of site "wide" other than the root: /x and /1 ... /7
WidePaths == <<"/x", "/1", "/2", "/3", "/4", "/5", "/6", "/7">>
WideLinks == [i \in 1..Len(WidePaths) |-> MkURL("http", "a.test", WidePaths[i], "")]

RawURLs == {Root, PageX, PageXFrag, RootUpper, NoScheme}
               \cup {WideLinks[i] : i \in 1..Len(WideLinks)}

\* url.URL.ResolveReference for the references the model uses: a reference
\* with a scheme is absolute; otherwise scheme (and host) come from the base.
ResolveReference(base, ref) ==
    IF ref.scheme # "" THEN ref
    ELSE IF ref.host # "" THEN [ref EXCEPT !.scheme = base.scheme]
    ELSE [ref EXCEPT !.scheme = base.scheme, !.host = base.host]

\* normalizeURL(inputURL, base): resolve against base when given, require a
\* scheme, drop the fragment; the host is written back as it was given.
normalizeURL(inputURL, base) ==
    LET parsed == IF base # None THEN ResolveReference(base, inputURL)
                  ELSE inputURL
    IN IF parsed.scheme = "" /\ (base = None \/ base.scheme = "")
       THEN NormErr
       ELSE [parsed EXCEPT !.frag = ""]

NormURLs == {normalizeURL(r, None) : r \in RawURLs} \ {NormErr}

\* The external Parse capability on the page served for a URL: the <a href>
\* values resolved to absolute URLs, and the <title> text ("" when absent).
\* Site "plain" is the two-page site of the seed scenario; site "mixed" adds
\* a fragment link and a link that spells the host in upper case; the pages
\* of site "leaf" have no links; the root of site "wide" links to eight
\* pages, each of which links back to the root.
ExtractLinks(st, u) ==
    IF st = "wide"
    THEN IF u.path = "/" THEN WideLinks ELSE <<Root>>
    ELSE IF u.path = "/" /\ st # "leaf"
    THEN IF st = "plain" THEN <<PageX, Root>>
         ELSE <<PageX, Root, PageXFrag, RootUpper>>
    ELSE <<>>

ExtractTitle(st, u) == IF u.path = "/" THEN "A" ELSE ""

\* the runs the model starts from: cfg.GetSeedURLs(), the site crawled and
\* cfg.GetNumWorkers(): -workers 1 for the run on the mixed site, one
\* worker per seed for the run on the leaf site, -workers 1 on the wide site
Configs == { [seeds |-> <<Root>>, site |-> "plain", workers |-> NumWorkers],
             [seeds |-> <<NoScheme, Root, Root>>, site |-> "mixed", workers |-> 1],
             [seeds |-> <<Root, PageX>>, site |-> "leaf", workers |-> 2],
             [seeds |-> <<Root>>, site |-> "wide", workers |-> 1] }

\* ------------------------------------------------------------------- state
VARIABLES
    seeds,            \* cfg.SeedURLs
    site,             \* which site the Fetch and Parse capabilities serve
    workers,          \* cfg.NumWorkers
    maxRetries,       \* cfg.MaxRetries
    mu,               \* Manager.mu: "free" or the AddURLs caller holding it
    visited,          \* Manager.visited
    urlChan,          \* Manager.urlChan buffer
    urlClosed,        \* close(m.urlChan) has run
    shutdownClosed,   \* close(m.shutdownChan) has run
    activeTasks,      \* Manager.activeTasks
    isDone,           \* Manager.isDone
    wgCount,          \* Manager.wg counter
    pcCD,             \* CheckDone goroutine: "wait", "lock", "done"
    pcMain,           \* main: "seed", "spawn", "select", "signal", "join", "done"
    pcL,              \* link listener goroutine: "idle", "select", "add", "exited"
    listenerMsg,      \* the links the listener received and passes to AddURLs
    pcAdd,            \* AddURLs position per caller: "none", "lock", "loop", "send"
    addUrls,          \* rest of the urls slice of the AddURLs call holding mu
    addPending,       \* normalizedU the select of AddURLs is sending
    addParent,        \* page whose links the AddURLs call holding mu processes
    fpc,              \* fetcher: "off", "select", "sleep", "fetch", "send", "exited"
    fdata,            \* fetcher: fetchedData being built
    fattempt,         \* fetcher: attempt
    fcalls,           \* history: client.Do calls made for the URL in hand
    flast,            \* history: what the last of these calls came back with
    fallServer,       \* history: every one of these calls was a 5xx response
    fetchedDataChan,
    ppc,              \* parser: "off", "select", "sendLinks", "sendStore", "exiting", "wgDone", "exited"
    pdata,            \* parser: page being processed
    pdefer,           \* parser: deferred urlMgrTaskCompleter calls (stack, by URL)
    newLinksChan,
    pageStoreChan,
    spc,              \* storage worker: "select", "exited"
    pushed,           \* history: sends on urlChan per URL
    taken,            \* history: receives from urlChan per URL
    accepted,         \* history: URLs accepted by AddURLs
    completed,        \* history: TaskCompleted calls returned
    completedFor,     \* history: URLs for which TaskCompleted was invoked
    stored,           \* history: SavePage calls per URL
    forced            \* history: the operator interrupt invoked SignalShutdown

vars == <<seeds, site, workers, maxRetries, mu, visited, urlChan, urlClosed, shutdownClosed, activeTasks,
          isDone, wgCount, pcCD, pcMain, pcL, listenerMsg, pcAdd, addUrls,
          addPending, addParent, fpc, fdata, fattempt, fcalls, flast,
          fallServer, fetchedDataChan, ppc,
          pdata, pdefer, newLinksChan, pageStoreChan, spc, pushed, taken,
          accepted, completed, completedFor, stored, forced>>

\* make(chan ..., cfg.GetNumWorkers()*2) for the three inter-stage channels
StageCap == workers * 2

mgrVars == <<visited, urlChan, urlClosed, shutdownClosed, activeTasks, isDone, wgCount>>
addVars == <<pcAdd, addUrls, addPending, addParent>>
fetchVars == <<fpc, fdata, fattempt, fcalls, flast, fallServer>>
parseVars == <<ppc, pdata, pdefer>>
histVars == <<pushed, taken, accepted, completed, completedFor, stored, forced>>

Callers == {"main", "listener"}
NoData == [url |-> None, err |-> FALSE, body |-> FALSE]
NoMsg == [parent |-> None, links |-> <<>>]

\* NewManager, then main up to step 7: CheckDone and the workers are started,
\* AddURLs(seeds) is about to be called; cfg.GetMaxRetries() is in retries
Start(retries) ==
    /\ \E cf \in Configs : seeds = cf.seeds /\ site = cf.site /\ workers = cf.workers
    /\ maxRetries \in retries
    /\ mu = "free"
    /\ visited = {}
    /\ urlChan = <<>>
    /\ urlClosed = FALSE
    /\ shutdownClosed = FALSE
    /\ activeTasks = 0
    /\ isDone = FALSE
    /\ wgCount = 0
    /\ pcCD = "wait"
    /\ pcMain = "seed"
    /\ pcL = "idle"
    /\ listenerMsg = NoMsg
    /\ pcAdd = [c \in Callers |-> IF c = "main" THEN "lock" ELSE "none"]
    /\ addUrls = <<>>
    /\ addPending = None
    /\ addParent = None
    /\ fpc = [f \in Fetchers |-> IF f <= workers THEN "select" ELSE "off"]
    /\ fdata = [f \in Fetchers |-> NoData]
    /\ fattempt = [f \in Fetchers |-> 0]
    /\ fcalls = [f \in Fetchers |-> 0]
    /\ flast = [f \in Fetchers |-> "none"]
    /\ fallServer = [f \in Fetchers |-> FALSE]
    /\ fetchedDataChan = <<>>
    /\ ppc = [p \in Parsers |-> IF p <= workers THEN "select" ELSE "off"]
    /\ pdata = [p \in Parsers |-> NoData]
    /\ pdefer = [p \in Parsers |-> <<>>]
    /\ newLinksChan = <<>>
    /\ pageStoreChan = <<>>
    /\ spc = "select"
    /\ pushed = [u \in NormURLs |-> 0]
    /\ taken = [u \in NormURLs |-> 0]
    /\ accepted = 0
    /\ completed = 0
    /\ completedFor = {}
    /\ stored = [u \in NormURLs |-> 0]
    /\ forced = FALSE

\* main builds its configuration with config.NewManager, which sets
\* MaxRetries to DefaultMaxRetries (there is no flag for it)
Init == Start({DefaultMaxRetries})

\* the workers started with a ConfigProvider whose GetMaxRetries() is any
\* value from 0 up to the default
InitAnyRetries == Start(0..DefaultMaxRetries)

\* ------------------------------------------------------ urlmanager.Manager
\* the slice an AddURLs caller passes: main the seeds, the listener the links
AddArgs(c) == IF c = "main" THEN seeds ELSE listenerMsg.links

\* the caller's continuation once its AddURLs call has returned
AddReturned(c) ==
    /\ pcAdd' = [pcAdd EXCEPT ![c] = "none"]
    /\ IF c = "main"
       THEN pcMain' = "spawn" /\ UNCHANGED <<pcL, listenerMsg>>
       ELSE pcL' = "select" /\ listenerMsg' = NoMsg /\ UNCHANGED pcMain

\* the isDone test of AddURLs left out
AddRejects_Never == FALSE

\* AddURLs: if m.isDone { return }
AddRejects == isDone

\* AddURLs: m.mu.Lock(); if m.isDone { return }
AddURLsEnter(c) ==
    /\ pcAdd[c] = "lock"
    /\ mu = "free"
    /\ IF AddRejects
       THEN /\ AddReturned(c)
            /\ UNCHANGED <<mu, addUrls, addPending, addParent>>
       ELSE /\ mu' = c
            /\ addUrls' = AddArgs(c)
            /\ addParent' = IF c = "main" THEN None ELSE listenerMsg.parent
            /\ pcAdd' = [pcAdd EXCEPT ![c] = "loop"]
            /\ UNCHANGED <<addPending, pcMain, pcL, listenerMsg>>
    /\ UNCHANGED <<seeds, site, workers, maxRetries, mgrVars, pcCD, fetchVars, fetchedDataChan, parseVars,
                   newLinksChan, pageStoreChan, spc, histVars>>

\* the visited test left out: every URL that normalizes counts as new
IsNew_NoCheck(normalizedU) == TRUE

\* AddURLs: if !m.visited[normalizedU]
IsNew(normalizedU) == normalizedU \notin visited

\* the visited map replaced instead of extended
MarkVisited_Overwrite(v, normalizedU) == {normalizedU}

\* AddURLs: m.visited[normalizedU] = true
MarkVisited(v, normalizedU) == v \cup {normalizedU}

\* the counting of an accepted URL left out
Increment_Skipped(n) == n

\* AddURLs: m.activeTasks++ together with m.wg.Add(1)
Increment(n) == n + 1

\* a completion counted twice
Decrement_Twice(n) == n - 2

\* TaskCompleted: m.activeTasks--
Decrement(n) == n - 1

\* a URL that fails to normalize ends the call
AfterBadURL_Return(rest) == <<>>

\* AddURLs: `continue` after a normalizeURL error: the loop goes on with
\* the rest of urls
AfterBadURL(rest) == rest

\* AddURLs: one iteration of the range loop up to m.activeTasks++
AddURLsNext(c) ==
    /\ pcAdd[c] = "loop"
    /\ mu = c
    /\ addUrls # <<>>
    /\ LET normalizedU == normalizeURL(Head(addUrls), None)
       IN /\ addUrls' = IF normalizedU = NormErr THEN AfterBadURL(Tail(addUrls))
                         ELSE Tail(addUrls)
          /\ IF normalizedU = NormErr \/ ~IsNew(normalizedU)
             THEN UNCHANGED <<visited, activeTasks, accepted, addPending, pcAdd>>
             ELSE /\ visited' = MarkVisited(visited, normalizedU)
                  /\ activeTasks' = Increment(activeTasks)
                  /\ accepted' = accepted + 1
                  /\ addPending' = normalizedU
                  /\ pcAdd' = [pcAdd EXCEPT ![c] = "wgAdd"]
    /\ UNCHANGED <<seeds, site, workers, maxRetries, mu, urlChan, urlClosed, shutdownClosed, isDone, wgCount,
                   pcCD, pcMain, pcL, listenerMsg, addParent, fetchVars, fetchedDataChan,
                   parseVars, newLinksChan, pageStoreChan, spc, pushed, taken,
                   completed, completedFor, stored, forced>>

\* AddURLs: m.wg.Add(1), the statement after m.activeTasks++; the WaitGroup
\* counter is not guarded by the mutex, so CheckDone's Wait can observe it
\* between the two
AddURLsWgAdd(c) ==
    /\ pcAdd[c] = "wgAdd"
    /\ mu = c
    /\ wgCount' = Increment(wgCount)
    /\ pcAdd' = [pcAdd EXCEPT ![c] = "send"]
    /\ UNCHANGED <<seeds, site, workers, maxRetries, mu, visited, urlChan, urlClosed, shutdownClosed,
                   activeTasks, isDone, pcCD, pcMain, pcL, listenerMsg, addUrls,
                   addPending, addParent, fetchVars, fetchedDataChan, parseVars,
                   newLinksChan, pageStoreChan, spc, histVars>>

\* the send taken whether or not urlChan has room
AddSelectReady_NoBackpressure ==
    {"send"} \cup (IF shutdownClosed THEN {"shutdown"} ELSE {})

\* the cases of the select in AddURLs that can proceed
AddSelectReady ==
    (IF Len(urlChan) < QueueCap THEN {"send"} ELSE {})
        \cup (IF shutdownClosed THEN {"shutdown"} ELSE {})

\* AddURLs: select { case m.urlChan <- normalizedU: ... case <-m.shutdownChan: ... }
AddURLsSelect(c) ==
    /\ pcAdd[c] = "send"
    /\ mu = c
    /\ \E b \in AddSelectReady :
         IF b = "send"
         THEN /\ urlChan' = Append(urlChan, addPending)
              /\ pushed' = [pushed EXCEPT ![addPending] = @ + 1]
              /\ addPending' = None
              /\ pcAdd' = [pcAdd EXCEPT ![c] = "loop"]
              /\ UNCHANGED <<mu, activeTasks, wgCount, accepted, addUrls, addParent,
                             pcMain, pcL, listenerMsg>>
         ELSE /\ activeTasks' = activeTasks - 1
              /\ wgCount' = wgCount - 1
              /\ accepted' = accepted - 1
              /\ addPending' = None
              /\ addUrls' = <<>>
              /\ addParent' = None
              /\ mu' = "free"
              /\ AddReturned(c)
              /\ UNCHANGED <<urlChan, pushed>>
    /\ UNCHANGED <<seeds, site, workers, maxRetries, visited, urlClosed, shutdownClosed, isDone, pcCD,
                   fetchVars, fetchedDataChan, parseVars, newLinksChan,
                   pageStoreChan, spc, taken, completed, completedFor, stored, forced>>

\* AddURLs: the range loop is over; the deferred m.mu.Unlock() runs
AddURLsReturn(c) ==
    /\ pcAdd[c] = "loop"
    /\ mu = c
    /\ addUrls = <<>>
    /\ mu' = "free"
    /\ addParent' = None
    /\ AddReturned(c)
    /\ UNCHANGED <<seeds, site, workers, maxRetries, mgrVars, pcCD, addUrls, addPending, fetchVars,
                   fetchedDataChan, parseVars, newLinksChan, pageStoreChan, spc,
                   histVars>>

\* CheckDone: m.wg.Wait() returns when the WaitGroup counter is zero
CheckDoneWait ==
    /\ pcCD = "wait"
    /\ wgCount = 0
    /\ pcCD' = "lock"
    /\ UNCHANGED <<seeds, site, workers, maxRetries, mu, mgrVars, pcMain, pcL, listenerMsg, addVars, fetchVars,
                   fetchedDataChan, parseVars, newLinksChan, pageStoreChan, spc,
                   histVars>>

\* CheckDone written as a loop that goes back to m.wg.Wait()
CheckDoneAfter_Loop == "wait"

\* CheckDone: the function returns after m.mu.Unlock(); main starts it once
CheckDoneAfter == "done"

\* the isDone test of CheckDone left out
CheckDoneAlready_Never == FALSE

\* CheckDone: if !m.isDone
CheckDoneAlready == isDone

\* CheckDone going on without the mutex
CheckDoneMayLock_NoMutex == TRUE

\* CheckDone: m.mu.Lock() returns when no AddURLs call holds the mutex
CheckDoneMayLock == mu = "free"

\* CheckDone: m.mu.Lock(); if !m.isDone { close(m.urlChan); m.isDone = true }
CheckDoneClose ==
    /\ pcCD = "lock"
    /\ CheckDoneMayLock
    /\ pcCD' = CheckDoneAfter
    /\ IF ~CheckDoneAlready
       THEN urlClosed' = TRUE /\ isDone' = TRUE
       ELSE UNCHANGED <<urlClosed, isDone>>
    /\ UNCHANGED <<seeds, site, workers, maxRetries, mu, visited, urlChan, shutdownClosed, activeTasks, wgCount,
                   pcMain, pcL, listenerMsg, addVars, fetchVars, fetchedDataChan,
                   parseVars, newLinksChan, pageStoreChan, spc, histVars>>

\* the isDone test of SignalShutdown left out
ShutdownAlready_Never == FALSE

\* SignalShutdown: if !m.isDone
ShutdownAlready == isDone

\* SignalShutdown going on without the mutex
ShutdownMayLock_NoMutex == TRUE

\* SignalShutdown: m.mu.Lock() returns when no AddURLs call holds the mutex
ShutdownMayLock == mu = "free"

\* SignalShutdown: m.mu.Lock(); if !m.isDone { close(m.shutdownChan); m.isDone = true }
SignalShutdown ==
    /\ pcMain = "signal"
    /\ ShutdownMayLock
    /\ pcMain' = "join"
    /\ IF ~ShutdownAlready
       THEN shutdownClosed' = TRUE /\ isDone' = TRUE
       ELSE UNCHANGED <<shutdownClosed, isDone>>
    /\ UNCHANGED <<seeds, site, workers, maxRetries, mu, visited, urlChan, urlClosed, activeTasks, wgCount,
                   pcCD, pcL, listenerMsg, addVars, fetchVars, fetchedDataChan,
                   parseVars, newLinksChan, pageStoreChan, spc, histVars>>

\* ------------------------------------------------------- fetcher.RunWorker
\* what one HTTP attempt can come back with
Outcomes == {"ok", "readErr", "clientErr", "serverErr", "netErr"}

\* what the server of the site crawled answers: the server of site "wide"
\* is healthy and answers every request with 200 and a readable body
Responses(st) == IF st = "wide" THEN {"ok"} ELSE Outcomes

\* the cases of the fetcher's outer select that can proceed
\* a closed urlChan read as closed while URLs are still buffered, and an
\* empty open one read as closed
FetcherReady_EmptyIsClosed ==
    (IF urlChan # <<>> THEN {"url"} ELSE {"closed"})
        \cup (IF shutdownClosed THEN {"shutdown"} ELSE {})

\* the cases of the select in GetNextURL / RunWorker that can proceed
FetcherReady ==
    (IF urlChan # <<>> THEN {"url"} ELSE {})
        \cup (IF urlClosed /\ urlChan = <<>> THEN {"closed"} ELSE {})
        \cup (IF shutdownClosed THEN {"shutdown"} ELSE {})

\* RunWorker: select { case urlToFetch, ok := <-urlSource: ... case <-shutdownChan: return }
\* (the same select as Manager.GetNextURL); with a URL in hand the worker
\* enters time.Sleep(cfg.GetCrawlDelay())
FetcherSelect(f) ==
    /\ fpc[f] = "select"
    /\ \E b \in FetcherReady :
         IF b = "url"
         THEN /\ urlChan' = Tail(urlChan)
              /\ taken' = [taken EXCEPT ![Head(urlChan)] = @ + 1]
              /\ fdata' = [fdata EXCEPT ![f] = [url |-> Head(urlChan), err |-> FALSE, body |-> FALSE]]
              /\ fattempt' = [fattempt EXCEPT ![f] = 0]
              /\ fallServer' = [fallServer EXCEPT ![f] = TRUE]
              /\ fpc' = [fpc EXCEPT ![f] = "sleep"]
         ELSE /\ fpc' = [fpc EXCEPT ![f] = "exited"]
              /\ UNCHANGED <<urlChan, taken, fdata, fattempt, fallServer>>
    /\ UNCHANGED <<seeds, site, workers, maxRetries, mu, visited, urlClosed, shutdownClosed, activeTasks, isDone,
                   wgCount, pcCD, pcMain, pcL, listenerMsg, addVars, fcalls, flast,
                   fetchedDataChan, parseVars, newLinksChan, pageStoreChan, spc, pushed,
                   accepted, completed, completedFor, stored, forced>>

\* RunWorker: time.Sleep(cfg.GetCrawlDelay()) is over (the delay is positive:
\* NewManager keeps DefaultCrawlDelay unless the flag is > 0); the retry loop
\* is entered if attempt < cfg.GetMaxRetries()
FetcherWake(f) ==
    /\ fpc[f] = "sleep"
    /\ fpc' = [fpc EXCEPT ![f] = IF 0 < maxRetries THEN "fetch" ELSE "send"]
    /\ UNCHANGED <<seeds, site, workers, maxRetries, mu, mgrVars, pcCD, pcMain, pcL, listenerMsg, addVars,
                   fdata, fattempt, fcalls, flast, fallServer, fetchedDataChan, parseVars,
                   newLinksChan, pageStoreChan, spc, histVars>>

\* every failed attempt retried, the 4xx responses and body-read errors too
Retryable_AnyError(o) == o # "ok"

\* RunWorker: the outcomes followed by `continue` while attempts remain:
\* client.Do errors and 5xx responses
Retryable(o) == o \in {"serverErr", "netErr"}

\* RunWorker: one pass of the retry loop, for attempt < cfg.GetMaxRetries()
FetcherAttempt(f) ==
    /\ fpc[f] = "fetch"
    /\ \E o \in Responses(site) :
         LET retry == Retryable(o) /\ fattempt[f] < maxRetries - 1
         IN /\ fdata' = [fdata EXCEPT ![f].err = (o # "ok"), ![f].body = (o = "ok")]
            /\ fattempt' = [fattempt EXCEPT ![f] = IF retry THEN @ + 1 ELSE @]
            /\ fcalls' = [fcalls EXCEPT ![f] = @ + 1]
            /\ flast' = [flast EXCEPT ![f] = o]
            /\ fallServer' = [fallServer EXCEPT ![f] = @ /\ o = "serverErr"]
            /\ fpc' = [fpc EXCEPT ![f] =
                          IF retry /\ fattempt[f] + 1 < maxRetries
                          THEN "fetch" ELSE "send"]
    /\ UNCHANGED <<seeds, site, workers, maxRetries, mu, mgrVars, pcCD, pcMain, pcL, listenerMsg, addVars,
                   fetchedDataChan, parseVars, newLinksChan, pageStoreChan, spc,
                   histVars>>

\* the cases of the fetcher's hand-off select that can proceed
FetcherSendReady ==
    (IF Len(fetchedDataChan) < StageCap THEN {"send"} ELSE {})
        \cup (IF shutdownClosed THEN {"shutdown"} ELSE {})

\* the worker completing the task of the URL it drops
DroppedTask_Completed(n) == n - 1

\* RunWorker: on shutdown the worker returns with its result in hand and
\* calls nothing of the Manager: the counter keeps the URL's task
DroppedTask(n) == n

\* RunWorker: select { case resultChan <- fetchedData: case <-shutdownChan: return }
FetcherSend(f) ==
    /\ fpc[f] = "send"
    /\ \E b \in FetcherSendReady :
         IF b = "send"
         THEN /\ fetchedDataChan' = Append(fetchedDataChan, fdata[f])
              /\ fpc' = [fpc EXCEPT ![f] = "select"]
              /\ UNCHANGED activeTasks
         ELSE /\ fpc' = [fpc EXCEPT ![f] = "exited"]
              /\ activeTasks' = DroppedTask(activeTasks)
              /\ UNCHANGED fetchedDataChan
    /\ fdata' = [fdata EXCEPT ![f] = NoData]
    /\ fattempt' = [fattempt EXCEPT ![f] = 0]
    /\ fcalls' = [fcalls EXCEPT ![f] = 0]
    /\ flast' = [flast EXCEPT ![f] = "none"]
    /\ fallServer' = [fallServer EXCEPT ![f] = FALSE]
    /\ UNCHANGED <<seeds, site, workers, maxRetries, mu, visited, urlChan, urlClosed, shutdownClosed,
                   isDone, wgCount, pcCD, pcMain, pcL, listenerMsg, addVars,
                   parseVars, newLinksChan, pageStoreChan, spc, histVars>>

\* -------------------------------------------------------- parser.RunWorker
\* where a parser goes when it returns: the deferred calls run first
ParserReturn(p) == IF pdefer[p] = <<>> THEN "exited" ELSE "exiting"

\* the links the tree walk collects from a fetched page
PageLinks(d) == IF d.body THEN ExtractLinks(site, d.url) ELSE <<>>

\* the title the tree walk collects from a fetched page
PageTitle(d) == IF d.body THEN ExtractTitle(site, d.url) ELSE ""

\* what html.Parse can return for the bodies a site serves: only the mixed
\* site serves bodies it may fail on
ParseResults == IF site = "mixed" THEN BOOLEAN ELSE {TRUE}

\* a fetch error no longer skipped
Skips_ParseErrorOnly(d, parseOK) == ~parseOK

\* RunWorker: the two `continue`s before the tree walk: fetchedData.Error != nil
\* and the html.Parse error
Skips(d, parseOK) == d.err \/ ~parseOK

ParserReady ==
    (IF fetchedDataChan # <<>> THEN {"data"} ELSE {})
        \cup (IF shutdownClosed THEN {"shutdown"} ELSE {})

\* RunWorker: receive fetchedData, defer urlMgrTaskCompleter(), skip on a fetch
\* error or an html.Parse error, otherwise walk the document
ParserSelect(p) ==
    /\ ppc[p] = "select"
    /\ \E b \in ParserReady, parseOK \in ParseResults :
         IF b = "data"
         THEN LET d == Head(fetchedDataChan)
              IN /\ fetchedDataChan' = Tail(fetchedDataChan)
                 /\ pdefer' = [pdefer EXCEPT ![p] = <<d.url>> \o @]
                 /\ IF Skips(d, parseOK)
                    THEN UNCHANGED <<ppc, pdata>>
                    ELSE /\ pdata' = [pdata EXCEPT ![p] = d]
                         /\ ppc' = [ppc EXCEPT ![p] =
                                       IF Len(PageLinks(d)) > 0 THEN "sendLinks"
                                       ELSE "sendStore"]
         ELSE /\ ppc' = [ppc EXCEPT ![p] = ParserReturn(p)]
              /\ UNCHANGED <<fetchedDataChan, pdefer, pdata>>
    /\ UNCHANGED <<seeds, site, workers, maxRetries, mu, mgrVars, pcCD, pcMain, pcL, listenerMsg, addVars,
                   fetchVars, newLinksChan, pageStoreChan, spc, histVars>>

ParserLinksReady ==
    (IF Len(newLinksChan) < StageCap THEN {"send"} ELSE {})
        \cup (IF shutdownClosed THEN {"shutdown"} ELSE {})

\* RunWorker: select { case newLinksChan <- extractedLinks: case <-shutdownChan: return }
ParserSendLinks(p) ==
    /\ ppc[p] = "sendLinks"
    /\ \E b \in ParserLinksReady :
         IF b = "send"
         THEN /\ newLinksChan' = Append(newLinksChan,
                                        [parent |-> pdata[p].url, links |-> PageLinks(pdata[p])])
              /\ ppc' = [ppc EXCEPT ![p] = "sendStore"]
              /\ UNCHANGED pdata
         ELSE /\ ppc' = [ppc EXCEPT ![p] = ParserReturn(p)]
              /\ pdata' = [pdata EXCEPT ![p] = NoData]
              /\ UNCHANGED newLinksChan
    /\ UNCHANGED <<seeds, site, workers, maxRetries, mu, mgrVars, pcCD, pcMain, pcL, listenerMsg, addVars,
                   fetchVars, fetchedDataChan, pdefer, pageStoreChan, spc, histVars>>

\* the record sent only for a page with a title
Stores_OnlyTitled(pageTitle) == pageTitle # ""

\* RunWorker: storageData is built and sent whatever pageTitle holds
Stores(pageTitle) == TRUE

ParserStoreReady ==
    (IF Len(pageStoreChan) < StageCap THEN {"send"} ELSE {})
        \cup (IF shutdownClosed THEN {"shutdown"} ELSE {})

\* RunWorker: select { case pageStoreChan <- storageData: case <-shutdownChan: return }
ParserSendStore(p) ==
    /\ ppc[p] = "sendStore"
    /\ IF Stores(PageTitle(pdata[p]))
       THEN \E b \in ParserStoreReady :
              IF b = "send"
              THEN /\ pageStoreChan' = Append(pageStoreChan,
                                              [url |-> pdata[p].url, title |-> PageTitle(pdata[p])])
                   /\ ppc' = [ppc EXCEPT ![p] = "select"]
              ELSE /\ ppc' = [ppc EXCEPT ![p] = ParserReturn(p)]
                   /\ UNCHANGED pageStoreChan
       ELSE /\ ppc' = [ppc EXCEPT ![p] = "select"]
            /\ UNCHANGED pageStoreChan
    /\ pdata' = [pdata EXCEPT ![p] = NoData]
    /\ UNCHANGED <<seeds, site, workers, maxRetries, mu, mgrVars, pcCD, pcMain, pcL, listenerMsg, addVars,
                   fetchVars, fetchedDataChan, pdefer, newLinksChan, spc, histVars>>

\* TaskCompleted, run as a deferred call of a returning parser:
\* m.mu.Lock(); m.activeTasks--; m.mu.Unlock()
TaskCompleted(p) ==
    /\ ppc[p] = "exiting"
    /\ mu = "free"
    /\ activeTasks' = Decrement(activeTasks)
    /\ completedFor' = completedFor \cup {Head(pdefer[p])}
    /\ ppc' = [ppc EXCEPT ![p] = "wgDone"]
    /\ UNCHANGED <<seeds, site, workers, maxRetries, mu, visited, urlChan, urlClosed, shutdownClosed, isDone,
                   wgCount, pcCD, pcMain, pcL, listenerMsg, addVars, fetchVars,
                   fetchedDataChan, pdata, pdefer, newLinksChan, pageStoreChan, spc,
                   pushed, taken, accepted, completed, stored, forced>>

\* TaskCompleted: m.wg.Done(), then the next deferred call or the return
TaskCompletedDone(p) ==
    /\ ppc[p] = "wgDone"
    /\ wgCount' = wgCount - 1
    /\ completed' = completed + 1
    /\ pdefer' = [pdefer EXCEPT ![p] = Tail(@)]
    /\ ppc' = [ppc EXCEPT ![p] = IF Tail(pdefer[p]) = <<>> THEN "exited" ELSE "exiting"]
    /\ UNCHANGED <<seeds, site, workers, maxRetries, mu, visited, urlChan, urlClosed, shutdownClosed, activeTasks,
                   isDone, pcCD, pcMain, pcL, listenerMsg, addVars, fetchVars,
                   fetchedDataChan, pdata, newLinksChan, pageStoreChan, spc, pushed,
                   taken, accepted, completedFor, stored, forced>>

\* ------------------------------------------------ storage.RunStorageWorker
StorageReady ==
    (IF pageStoreChan # <<>> THEN {"data"} ELSE {})
        \cup (IF shutdownClosed THEN {"shutdown"} ELSE {})

\* the worker returning when SavePage fails
AfterSave_ErrorFatal(saveOK) == IF saveOK THEN "select" ELSE "exited"

\* RunStorageWorker: both branches of `if err != nil` only print, and the
\* loop goes back to its select
AfterSave(saveOK) == "select"

\* RunStorageWorker: receive a page and SavePage it (the error is only
\* logged), or return on shutdown
StorageSelect ==
    /\ spc = "select"
    /\ \E b \in StorageReady, saveOK \in BOOLEAN :
         IF b = "data"
         THEN /\ pageStoreChan' = Tail(pageStoreChan)
              /\ stored' = [stored EXCEPT ![Head(pageStoreChan).url] = @ + 1]
              /\ spc' = AfterSave(saveOK)
         ELSE /\ spc' = "exited"
              /\ UNCHANGED <<pageStoreChan, stored>>
    /\ UNCHANGED <<seeds, site, workers, maxRetries, mu, mgrVars, pcCD, pcMain, pcL, listenerMsg, addVars,
                   fetchVars, fetchedDataChan, parseVars, newLinksChan, pushed,
                   taken, accepted, completed, completedFor, forced>>

\* -------------------------------------------------------------------- main
\* main: the go func() that forwards newLinksChan to AddURLs is started
MainStartListener ==
    /\ pcMain = "spawn"
    /\ pcMain' = "select"
    /\ pcL' = "select"
    /\ UNCHANGED <<seeds, site, workers, maxRetries, mu, mgrVars, pcCD, listenerMsg, addVars, fetchVars,
                   fetchedDataChan, parseVars, newLinksChan, pageStoreChan, spc,
                   histVars>>

ListenerReady ==
    (IF newLinksChan # <<>> THEN {"links"} ELSE {})
        \cup (IF shutdownClosed THEN {"shutdown"} ELSE {})

\* link listener: select { case links := <-newLinksChan: urlMgr.AddURLs(links, nil)
\*                         case <-shutdown: return }
ListenerSelect ==
    /\ pcL = "select"
    /\ \E b \in ListenerReady :
         IF b = "links"
         THEN /\ listenerMsg' = Head(newLinksChan)
              /\ newLinksChan' = Tail(newLinksChan)
              /\ pcL' = "add"
              /\ pcAdd' = [pcAdd EXCEPT !["listener"] = "lock"]
         ELSE /\ pcL' = "exited"
              /\ UNCHANGED <<listenerMsg, newLinksChan, pcAdd>>
    /\ UNCHANGED <<seeds, site, workers, maxRetries, mu, mgrVars, pcCD, pcMain, addUrls, addPending, addParent,
                   fetchVars, fetchedDataChan, parseVars, pageStoreChan, spc, histVars>>

\* the operator interrupt can arrive at any time; the shutdown case needs the
\* channel closed
MainReady == {"signal"} \cup (IF shutdownClosed THEN {"shutdown"} ELSE {})

\* main: select { case s := <-sigChan: urlMgr.SignalShutdown() case <-shutdown: }
MainSelect ==
    /\ pcMain = "select"
    /\ \E b \in MainReady :
         IF b = "signal"
         THEN pcMain' = "signal" /\ forced' = TRUE
         ELSE pcMain' = "join" /\ UNCHANGED forced
    /\ UNCHANGED <<seeds, site, workers, maxRetries, mu, mgrVars, pcCD, pcL, listenerMsg, addVars, fetchVars,
                   fetchedDataChan, parseVars, newLinksChan, pageStoreChan, spc,
                   pushed, taken, accepted, completed, completedFor, stored>>

\* every goroutine counted by workerWg has returned
WorkersExited ==
    /\ \A f \in Fetchers : fpc[f] \in {"exited", "off"}
    /\ \A p \in Parsers : ppc[p] \in {"exited", "off"}
    /\ spc = "exited"

\* main: workerWg.Wait() returns
MainJoin ==
    /\ pcMain = "join"
    /\ WorkersExited
    /\ pcMain' = "done"
    /\ UNCHANGED <<seeds, site, workers, maxRetries, mu, mgrVars, pcCD, pcL, listenerMsg, addVars, fetchVars,
                   fetchedDataChan, parseVars, newLinksChan, pageStoreChan, spc,
                   histVars>>

\* ----------------------------------------------------------- specification
\* every step except the arrival of the operator interrupt
Progress ==
    \/ \E c \in Callers : AddURLsEnter(c) \/ AddURLsNext(c) \/ AddURLsWgAdd(c)
    \/ \E c \in Callers : AddURLsSelect(c) \/ AddURLsReturn(c)
    \/ CheckDoneWait
    \/ CheckDoneClose
    \/ SignalShutdown
    \/ \E f \in Fetchers : FetcherSelect(f) \/ FetcherWake(f) \/ FetcherAttempt(f) \/ FetcherSend(f)
    \/ \E p \in Parsers : ParserSelect(p) \/ ParserSendLinks(p) \/ ParserSendStore(p)
    \/ \E p \in Parsers : TaskCompleted(p) \/ TaskCompletedDone(p)
    \/ StorageSelect
    \/ MainStartListener
    \/ ListenerSelect
    \/ MainJoin

Next == Progress \/ MainSelect

Spec == Init /\ [][Next]_vars

\* the same program under every retry configuration
SpecAnyRetries == InitAnyRetries /\ [][Next]_vars

\* the goroutines are scheduled fairly; the operator interrupt need not come
Fairness ==
    /\ \A c \in Callers :
         WF_vars(AddURLsEnter(c) \/ AddURLsNext(c) \/ AddURLsWgAdd(c)
                    \/ AddURLsSelect(c) \/ AddURLsReturn(c))
    /\ WF_vars(CheckDoneWait \/ CheckDoneClose)
    /\ WF_vars(SignalShutdown \/ MainStartListener \/ MainJoin)
    /\ WF_vars(ListenerSelect)
    /\ \A f \in Fetchers : WF_vars(FetcherSelect(f) \/ FetcherWake(f) \/ FetcherAttempt(f) \/ FetcherSend(f))
    /\ \A p \in Parsers :
         WF_vars(ParserSelect(p) \/ ParserSendLinks(p) \/ ParserSendStore(p)
                   \/ TaskCompleted(p) \/ TaskCompletedDone(p))
    /\ WF_vars(StorageSelect)

LiveSpec == Init /\ [][Next]_vars /\ Fairness

\* ------------------------------------------------------------------ claims
\* an AddURLs call is between its Lock and its Unlock
AddInProgress == mu # "free"

\* a TaskCompleted call has decremented activeTasks and not yet returned
CompleteInProgress == \E p \in Parsers : ppc[p] = "wgDone"

\* the seeds that normalize
GoodSeeds == {normalizeURL(seeds[i], None) : i \in 1..Len(seeds)} \ {NormErr}

\* the Frontier is closed and the crawl is over: take() returns ok=false, the
\* seeds were accepted and every accepted URL was reported complete
CrawlFinished ==
    /\ urlClosed
    /\ urlChan = <<>>
    /\ GoodSeeds \subseteq visited
    /\ visited \subseteq completedFor

\* C1: with no forced shutdown the crawl eventually reaches a closed
\* Frontier with every accepted URL fetched, parsed and reported complete.
C1_Termination == <>(forced \/ CrawlFinished)

\* the links of page u are still on their way to AddURLs
LinksWaiting(u) ==
    \/ \E i \in 1..Len(newLinksChan) : newLinksChan[i].parent = u
    \/ listenerMsg.parent = u

\* C2: when TaskCompleted has been invoked for a parent page, none of the
\* links found on that page is still waiting to be submitted by AddURLs.
C2_ChildrenSubmittedFirst == \A u \in completedFor : ~LinksWaiting(u)

\* C3: in a step in which CheckDone closes urlChan, activeTasks is 0 and
\* urlChan is empty.
C3_ClosesOnlyWhenDrained ==
    [][(~urlClosed /\ urlClosed') => (activeTasks = 0 /\ urlChan = <<>>)]_vars

C5_Conservation ==
    (~AddInProgress /\ ~CompleteInProgress) => activeTasks = accepted - completed

\* a quiescent state after some URLs were accepted and some completed
C5_Witness ==
    /\ ~AddInProgress
    /\ ~CompleteInProgress
    /\ accepted >= 2
    /\ completed >= 1
    /\ activeTasks >= 1

\* C6: activeTasks is never negative, forced shutdown included.
C6_NonNegative == activeTasks >= 0

\* after a forced shutdown the returning parsers completed every accepted URL
C6_Witness ==
    /\ forced
    /\ accepted >= 2
    /\ completed = accepted
    /\ activeTasks = 0

\* C7: a parse worker that is back at its receive has called TaskCompleted
\* for every FetchResult it received so far.
C7_CompletedBeforeNextReceive == \A p \in Parsers : ppc[p] = "select" => pdefer[p] = <<>>

\* an AddURLs call is blocked sending on a full urlChan
AddBlocked == \E c \in Callers : pcAdd[c] = "send" /\ Len(urlChan) >= QueueCap

\* C8: a SignalShutdown call made while AddURLs is blocked on a full queue
\* can set the flag at once, without waiting for queue space.
C8_ShutdownReleasesSubmit == (pcMain = "signal" /\ AddBlocked) => ENABLED SignalShutdown

\* C9: once shutdownChan is closed no receive from urlChan hands out a URL.
C9_NoTakeAfterShutdown == [][shutdownClosed => taken' = taken]_vars

\* C10: once CheckDone has closed the Frontier with no interrupt, main's
\* workerWg.Wait() eventually returns (or the operator interrupts).
C10_CompletionJoins == (urlClosed /\ ~forced) ~> (pcMain = "done" \/ forced)

\* C11: once the operator interrupt has been taken, SignalShutdown returns
\* and every fetcher, parser, the storage worker and the link listener exit,
\* so that main's workerWg.Wait() returns
C11_ForcedShutdownCompletes ==
    forced ~> (pcMain = "done" /\ pcL = "exited" /\ WorkersExited)

\* a SignalShutdown call runs its body
SignalShutdownStep == pcMain = "signal" /\ pcMain' = "join"

\* C12: a SignalShutdown call that finds the manager already done changes no
\* Manager state and closes no channel, it is never kept waiting for the
\* mutex, and a channel is only ever closed by the call that sets isDone
C12_ShutdownIdempotent ==
    /\ [][(SignalShutdownStep /\ isDone) =>
            UNCHANGED <<visited, activeTasks, wgCount, urlChan, urlClosed,
                        shutdownClosed, isDone>>]_vars
    /\ [][((~urlClosed /\ urlClosed') \/ (~shutdownClosed /\ shutdownClosed')) =>
            (~isDone /\ isDone' /\ ~urlClosed /\ ~shutdownClosed)]_vars
    /\ []((pcMain = "signal" /\ isDone) => ENABLED SignalShutdown)

C12_Witness == pcMain = "join" /\ forced /\ urlClosed /\ ~shutdownClosed

\* C13: an AddURLs call that finds isDone set returns without touching
\* visited, activeTasks, the WaitGroup counter or urlChan
C13_SubmitAfterShutdownNoOp ==
    [][\A c \in Callers :
          (pcAdd[c] = "lock" /\ pcAdd'[c] # "lock" /\ isDone) =>
              (pcAdd'[c] = "none"
                 /\ UNCHANGED <<visited, activeTasks, wgCount, urlChan>>)]_vars

\* the listener calls AddURLs with a link never seen, after SignalShutdown
C13_Witness ==
    /\ pcAdd["listener"] = "lock"
    /\ shutdownClosed
    /\ \E i \in 1..Len(listenerMsg.links) :
         normalizeURL(listenerMsg.links[i], None) \notin visited \cup {NormErr}

\* the safety part of backpressure: urlChan never holds more than its
\* capacity, an AddURLs call whose URL finds it full cannot proceed, and until
\* shutdown every URL in visited has been sent to urlChan or is the one the
\* blocked call still holds
BackpressureWithoutLoss ==
    /\ Len(urlChan) <= QueueCap
    /\ \A c \in Callers :
         (pcAdd[c] = "send" /\ Len(urlChan) >= QueueCap /\ ~shutdownClosed)
             => ~ENABLED AddURLsSelect(c)
    /\ ~shutdownClosed =>
         \A u \in visited :
            \/ pushed[u] = 1
            \/ pushed[u] = 0 /\ addPending = u
                 /\ \E c \in Callers : pcAdd[c] \in {"wgAdd", "send"}

\* an AddURLs call is blocked with a new URL in hand, and no shutdown
BlockedWithURL ==
    /\ ~shutdownClosed
    /\ AddBlocked
    /\ addPending \in visited
    /\ pushed[addPending] = 0

\* C14: with no shutdown signalled, an AddURLs call blocked on a full urlChan
\* is never left holding an accepted URL with no goroutine able to take a
\* step, so that the URL is eventually enqueued
C14_EventuallyEnqueued ==
    ~(BlockedWithURL /\ ~forced /\ ~ENABLED Progress)

\* C15: no fetch worker takes a URL of a host while another worker is still
\* inside the crawl delay that followed its take of a URL of the same host,
\* that is, two dispatches to one domain are at least the crawl delay apart
C15_PerDomainPoliteness ==
    \A f, g \in Fetchers :
       (f # g /\ fpc[f] = "sleep" /\ fpc[g] = "sleep")
           => fdata[f].url.host # fdata[g].url.host

\* fetch worker f issues an HTTP request (client.Do) in this step
Requests(f) == fcalls'[f] = fcalls[f] + 1

\* C16: no worker issues an HTTP request while another worker is inside its
\* crawl delay, so that the request this other worker makes on waking comes
\* at least the crawl delay after the previous request of the pool
C16_GlobalCrawlDelay ==
    [][\A f, g \in Fetchers : (f # g /\ Requests(f)) => fpc[g] # "sleep"]_vars

\* the seed scenario has run to its end: both pages accepted and sent to
\* urlChan once, both stored once, every TaskCompleted made, urlChan closed
ScenarioDone ==
    /\ CrawlFinished
    /\ visited = {Root, PageX}
    /\ pushed[Root] = 1 /\ pushed[PageX] = 1
    /\ stored[Root] = 1 /\ stored[PageX] = 1

\* some fetch attempt of the run has just failed
FetchFailed == \E f \in Fetchers : flast[f] \notin {"none", "ok"}

\* C17: with the single seed http://a.test/ whose page links to /x and to
\* itself, every fetch succeeding and no interrupt, the crawl ends with /x
\* accepted once, the self-link dropped and both pages stored once
C17_SeedScenario ==
    <>(site # "plain" \/ forced \/ FetchFailed \/ ScenarioDone)

\* C18: a URL whose every attempt is answered 5xx reaches the hand-off with
\* an error result after DefaultMaxRetries retries, DefaultMaxRetries + 1
\* requests in all
C18_RetriesExhausted ==
    \A f \in Fetchers :
       (fpc[f] = "send" /\ fallServer[f])
           => (fdata[f].err /\ fcalls[f] = DefaultMaxRetries + 1)

\* C19: unless the crawl is interrupted, a URL whose fetch ended in an error
\* result has TaskCompleted invoked for it
C19_FailureStillCompletes ==
    \A u \in NormURLs :
       (\E f \in Fetchers : fpc[f] = "send" /\ fdata[f].url = u /\ fdata[f].err)
           ~> (forced \/ u \in completedFor)

\* C20: after a 4xx response the worker is at the hand-off of the result;
\* it makes no further attempt, whatever the attempt number
C20_ClientErrorEndsLoop ==
    \A f \in Fetchers : flast[f] = "clientErr" => (fpc[f] = "send" /\ fdata[f].err)

\* a 4xx response to the first attempt, with an attempt left in the budget
C20_Witness ==
    \E f \in Fetchers :
       fpc[f] = "send" /\ flast[f] = "clientErr" /\ fcalls[f] = 1
           /\ fattempt[f] < DefaultMaxRetries - 1

\* parser p receives a fetch result that carries an error
ReceivesError(p) ==
    /\ ppc[p] = "select"
    /\ fetchedDataChan # <<>>
    /\ Head(fetchedDataChan).err
    /\ fetchedDataChan' = Tail(fetchedDataChan)
    /\ Len(pdefer'[p]) = Len(pdefer[p]) + 1

\* C21: a parser that receives a fetch result carrying an error goes back to
\* its receive without touching newLinksChan or pageStoreChan, and no parser
\* is ever about to send links or a page record for such a result
C21_ErrorNoOutput ==
    /\ [][\A p \in Parsers :
            ReceivesError(p) =>
               (ppc'[p] = "select" /\ UNCHANGED <<newLinksChan, pageStoreChan, stored>>)]_vars
    /\ [](\A p \in Parsers :
            ppc[p] \in {"sendLinks", "sendStore"} => (~pdata[p].err /\ pdata[p].body))

\* on the plain site, without shutdown, the root page has been through a
\* parser, yet no link was submitted and no record stored or waiting: its
\* fetch result carried an error
C21_Witness ==
    /\ site = "plain" /\ ~shutdownClosed
    /\ \E p \in Parsers : pdefer[p] = <<Root>>
    /\ \A p \in Parsers : ppc[p] \in {"select", "off"}
    /\ visited = {Root}
    /\ newLinksChan = <<>> /\ listenerMsg = NoMsg
    /\ pageStoreChan = <<>> /\ stored[Root] = 0

\* C22 as stated: every page record sent to storage carries a title
C22_StoreOnlyIfTitle ==
    \A i \in 1..Len(pageStoreChan) : pageStoreChan[i].title # ""

\* C22 amended: a parser that finishes a page without being shut down has
\* sent exactly one record for it, carrying the title found, empty or not
C22_StoreWhateverTitle ==
    [][\A p \in Parsers :
          (ppc[p] = "sendStore" /\ ppc'[p] = "select") =>
              pageStoreChan' = Append(pageStoreChan,
                                      [url |-> pdata[p].url,
                                       title |-> ExtractTitle(site, pdata[p].url)])]_vars

\* the page /x, which has no title, has been stored
C22_Witness == stored[PageX] = 1

C26_VisitedGrows == [][visited \subseteq visited']_vars

\* two URLs are in visited after the completions that follow a forced shutdown
C26_Witness == Cardinality(visited) >= 2 /\ shutdownClosed /\ completed >= 1

\* TaskCompleted is only ever invoked after shutdownChan has been closed: it
\* runs as a deferred call of a parser that returns
CompletedOnlyAfterShutdown ==
    (completed >= 1 \/ \E p \in Parsers : ppc[p] \in {"exiting", "wgDone"})
        => (shutdownClosed /\ isDone)

\* C27: every URL in visited has a scheme, no fragment and a lower-case
\* host, so that no two entries differ only in the letter case of the host
C27_CanonicalForm ==
    /\ \A u \in visited : u.scheme # "" /\ u.frag = ""
    /\ ~(Root \in visited /\ RootUpper \in visited)

\* an AddURLs call meets a URL that fails to normalize
MeetsBadURL(c) ==
    /\ pcAdd[c] = "loop" /\ mu = c /\ addUrls # <<>>
    /\ normalizeURL(Head(addUrls), None) = NormErr
    /\ addUrls' # addUrls

\* C28: a URL that fails to normalize changes neither visited nor the
\* counters nor urlChan and the call goes on with the rest of its batch, so
\* that the seeding call, unless it found the manager done, returns with
\* every well-formed seed in visited and sent to urlChan
C28_MalformedDropped ==
    /\ [][\A c \in Callers :
            MeetsBadURL(c) =>
               /\ UNCHANGED <<visited, activeTasks, wgCount, urlChan>>
               /\ addUrls' = Tail(addUrls)
               /\ pcAdd'[c] = "loop"]_vars
    /\ []((pcMain # "seed" /\ ~urlClosed) =>
            \A u \in GoodSeeds : u \in visited /\ pushed[u] = 1)

\* the seeding call of the mixed run, whose first seed has no scheme, has
\* returned with the seed that follows it accepted
C28_Witness ==
    /\ site = "mixed" /\ pcMain # "seed" /\ ~urlClosed
    /\ normalizeURL(seeds[1], None) = NormErr
    /\ Root \in visited /\ pushed[Root] = 1

\* C29: a fetch worker's receive returns without a URL only if shutdownChan
\* is closed or urlChan is closed and empty; while both are open and urlChan
\* is empty the receive cannot proceed
C29_TakeBlocksWhileOpen ==
    /\ [][\A f \in Fetchers :
            (fpc[f] = "select" /\ fpc'[f] = "exited") =>
               (shutdownClosed \/ (urlClosed /\ urlChan = <<>>))]_vars
    /\ []((~urlClosed /\ ~shutdownClosed /\ urlChan = <<>>) =>
            \A f \in Fetchers : ~ENABLED FetcherSelect(f))

\* urlChan was closed after a URL had been accepted; the URL was received
\* and, without shutdown, a worker returned on the closed and empty channel
C29_Witness ==
    /\ ~shutdownClosed
    /\ \E f \in Fetchers : fpc[f] = "exited"
    /\ \E u \in NormURLs : taken[u] = 1

\* C30: a step of a fetch worker changes neither activeTasks nor the
\* WaitGroup counter, and every step that changes one of them is a step of
\* an AddURLs call or of a parser's TaskCompleted
C30_FetchersLeaveCounter ==
    /\ [][fetchVars' # fetchVars => UNCHANGED <<activeTasks, wgCount>>]_vars
    /\ [][(activeTasks' # activeTasks \/ wgCount' # wgCount) =>
            (pcAdd' # pcAdd \/ ppc' # ppc)]_vars

\* a worker has dropped the result it held and returned on shutdown, the
\* task of its URL still counted
C30_Witness ==
    /\ shutdownClosed
    /\ \E f \in Fetchers : fpc[f] = "exited"
    /\ \E u \in NormURLs : taken[u] = 1 /\ u \notin completedFor
                              /\ \A p \in Parsers : \A i \in 1..Len(pdefer[p]) : pdefer[p][i] # u
    /\ \A f \in Fetchers : fdata[f] = NoData
    /\ fetchedDataChan = <<>>
    /\ activeTasks >= 1

\* the storage worker receives a page record and calls SavePage
Saves ==
    spc = "select" /\ pageStoreChan # <<>> /\ pageStoreChan' = Tail(pageStoreChan)

C32_SeedsNotLost ==
    pcMain # "seed" => \A u \in GoodSeeds : u \in visited /\ pushed[u] = 1

\* the pipeline is wedged by backpressure: the listener is inside AddURLs with
\* a URL to send and urlChan is full, every parser is at a send on a full
\* channel and every fetcher is at its send on a full fetchedDataChan
BackpressureDeadlock ==
    /\ pcAdd["listener"] = "send" /\ Len(urlChan) >= QueueCap
    /\ \A p \in Parsers : p <= workers =>
          \/ ppc[p] = "sendLinks" /\ Len(newLinksChan) >= StageCap
          \/ ppc[p] = "sendStore" /\ Len(pageStoreChan) >= StageCap
    /\ \A f \in Fetchers : f <= workers =>
          fpc[f] = "send" /\ Len(fetchedDataChan) >= StageCap

\* C33: without a forced shutdown the pipeline never reaches the state in
\* which work remains, the listener is blocked in AddURLs on a full urlChan,
\* all parsers are blocked sending and all fetchers are blocked sending, and
\* no goroutine can take a step
C33_NoBackpressureDeadlock ==
    ~(~shutdownClosed /\ ~forced /\ BackpressureDeadlock /\ ~ENABLED Progress)

C35_NoChannelMisuse ==
    /\ [][(pushed' # pushed \/ Len(urlChan') > Len(urlChan)) =>
            (~urlClosed /\ ~urlClosed')]_vars
    /\ [][(pcCD = "lock" /\ pcCD' # "lock" /\ ~CheckDoneAlready) => ~urlClosed]_vars
    /\ [][(SignalShutdownStep /\ ~ShutdownAlready) => ~shutdownClosed]_vars

\* urlChan was closed after a seed had been sent on it, and the listener
\* calls AddURLs with a link never seen
C35_Witness ==
    /\ urlClosed
    /\ pushed[Root] = 1
    /\ pcAdd["listener"] = "lock"
    /\ \E i \in 1..Len(listenerMsg.links) :
         normalizeURL(listenerMsg.links[i], None) \notin visited \cup {NormErr}

\* C36: whenever no AddURLs call is in progress every URL in visited has been
\* sent on urlChan exactly once, and every AddURLs call that leaves its
\* select does so by the send, never by the shutdown case
C36_VisitedImpliesEnqueued ==
    /\ [](~AddInProgress => \A u \in visited : pushed[u] = 1)
    /\ [][\A c \in Callers :
            (pcAdd[c] = "send" /\ pcAdd'[c] # "send") =>
                /\ urlChan' = Append(urlChan, addPending)
                /\ pcAdd'[c] = "loop"
                /\ UNCHANGED <<activeTasks, wgCount>>]_vars

\* SignalShutdown has run, no AddURLs call is in progress, and the seed and a
\* link are in visited
C36_Witness ==
    /\ shutdownClosed
    /\ ~AddInProgress
    /\ Cardinality(visited) >= 2

\* C37: the WaitGroup counter is never negative and never below activeTasks,
\* the two are equal whenever no AddURLs and no TaskCompleted call is in
\* progress, and so the counter is zero only when activeTasks is zero
C37_WaitGroupCoversTasks ==
    /\ wgCount >= 0
    /\ wgCount >= activeTasks
    /\ (~AddInProgress /\ ~CompleteInProgress) => wgCount = activeTasks
    /\ wgCount = 0 => activeTasks = 0
====
